---- MODULE Spec2Model ----
(***************************************************************************)
(* Expanded Spell Slots (scripts/main.mjs): the configuration store, the   *)
(* slot-table patcher, the settings form and the ready hook, as state      *)
(* machines.                                                               *)
(*                                                                         *)
(* Representation.                                                         *)
(*  - A JavaScript value that may be undefined/null is a record            *)
(*    [present |-> BOOLEAN, rows |-> ...].                                 *)
(*  - A raw field handed to parseInt is <<>> (absent or unparsable, NaN)   *)
(*    or <<n>> (parses to n).                                              *)
(*  - A raw "enabled" value is one of the strings "T" (boolean true),      *)
(*    "F" (boolean false), "str:true", "str:on", "undefined".              *)
(*  - Arrays are 1-based here: table[c-1][t-1] of the code is rows[c][t].  *)
(***************************************************************************)
EXTENDS Integers, Sequences, FiniteSets, TLC

VARIABLES
    settings,                 \* the stored "config" setting: [has, value]
    table,                    \* CONFIG.DND5E.SPELL_SLOT_TABLE
    originalSpellSlotTable,   \* module variable, null until the first apply
    spellModel,               \* CONFIG.DND5E.spellcasting.spell (cached copy)
    spellLevels,              \* keys >= 10 of CONFIG.DND5E.spellLevels
    outcome,                  \* how the last applyExpandedSpellSlots ended
    lastOp,                   \* history: the last operation performed
    prevOp,                   \* history: the operation before it
    firstApply,               \* history: config and result of the first apply
    inflight,                 \* game.settings.set calls not yet completed
    formOpen,                 \* the settings form is rendered and editable
    shownMax,                 \* highest tier row of the last render
    submitPc,                 \* position of _updateObject
    reloadRequested,          \* reloadGame() has been called
    hist,                     \* history: last add/remove handlers run alone
    burstBase,                \* history: maxSpellLevel before a run of adds
    burstAdds,                \* history: number of adds in that run
    actors,                   \* game.actors
    tokens,                   \* scene tokens, flattened in enumeration order
    readyPc,                  \* position of the ready handler
    idx,                      \* loop index of the ready handler
    prepCount                 \* per entity: _prepareSpellcasting invocations

vars == <<settings, table, originalSpellSlotTable, spellModel, spellLevels,
          outcome, lastOp, prevOp, firstApply, inflight, formOpen, shownMax,
          submitPc,
          reloadRequested, hist, burstBase, burstAdds, actors,
          tokens, readyPc, idx, prepCount>>

patchVars == <<table, originalSpellSlotTable, spellModel, spellLevels,
               outcome, firstApply>>
formVars == <<inflight, formOpen, shownMax, submitPc, reloadRequested,
              hist, burstBase, burstAdds>>
readyVars == <<actors, tokens, readyPc, idx, prepCount>>

----------------------------------------------------------------------------
(* Program constants.                                                      *)

FirstExpandedLevel == 10
LastCharacterLevel == 20
LastPurgedLevel == 99
DefaultCharacterLevel == 20
DefaultSlots == 1

(* Bounds of the model.                                                    *)
MaxCfgTier == 11      \* highest maxSpellLevel of the enumerated stored configs
MaxTier == 11         \* addTier is not taken from this maxSpellLevel on
MaxInflight == 2      \* settings writes in flight at once
MaxActors == 2        \* world actors
MaxTokens == 2        \* scene tokens

Max(a, b) == IF a >= b THEN a ELSE b

Rule(e, c, s) == [enabled |-> e, characterLevel |-> c, slots |-> s]

DEFAULT_CONFIG ==
    [maxSpellLevel |-> 12,
     levels |-> (10 :> Rule("T", <<19>>, <<1>>)) @@
                (11 :> Rule("T", <<20>>, <<1>>)) @@
                (12 :> Rule("T", <<20>>, <<1>>))]

Undefined == [present |-> FALSE, rows |-> <<>>]
Defined(r) == [present |-> TRUE, rows |-> r]

NoSetting == [has |-> FALSE, value |-> DEFAULT_CONFIG]
Stored(cfg) == [has |-> TRUE, value |-> cfg]

----------------------------------------------------------------------------
(* ConfigStore.                                                            *)

\* game.settings.get: the stored value, or the registered default.
SettingsGet(s) == IF s.has THEN s.value ELSE DEFAULT_CONFIG

\* getConfig: { ...DEFAULT_CONFIG, ...config }, keys of config win.
GetConfig(s) ==
    LET config == SettingsGet(s)
    IN  [k \in DOMAIN DEFAULT_CONFIG \cup DOMAIN config |->
            IF k \in DOMAIN config THEN config[k] ELSE DEFAULT_CONFIG[k]]

\* parseInt(raw) || dflt: NaN and 0 are both falsy.
ParseIntOr(raw, dflt) ==
    IF raw = <<>> \/ raw[1] = 0 THEN dflt ELSE raw[1]

\* config.levels?.[level] || config.levels?.[String(level)]
LevelConfig(config, level) ==
    IF level \in DOMAIN config.levels
        THEN [present |-> TRUE, rule |-> config.levels[level]]
        ELSE [present |-> FALSE, rule |-> Rule("undefined", <<>>, <<>>)]

\* levelConfig?.enabled === true || levelConfig?.enabled === "true"
IsEnabled(lc) == lc.present /\ lc.rule.enabled \in {"T", "str:true"}

----------------------------------------------------------------------------
(* TablePatcher.                                                           *)

\* rows.map(row => [...row])
CopyRows(rows) ==
    [r \in 1..Len(rows) |-> [i \in 1..Len(rows[r]) |-> rows[r][i]]]

\* while (row.length < colIndex + 1) row.push(0); row[colIndex] = slotsToGrant
WriteCell(row, spellLevel, slotsToGrant) ==
    [i \in 1..Max(Len(row), spellLevel) |->
        IF i = spellLevel THEN slotsToGrant
        ELSE IF i <= Len(row) THEN row[i] ELSE 0]

\* The row loop with rowIndex = charLevel (the "- 1" forgotten).
RECURSIVE CharLevelLoopOffByOne(_, _, _, _)
CharLevelLoopOffByOne(rows, charLevel, spellLevel, slotsToGrant) ==
    IF charLevel > LastCharacterLevel THEN rows
    ELSE LET next ==
                 IF charLevel + 1 \in 1..Len(rows)
                     THEN [rows EXCEPT ![charLevel + 1] =
                              WriteCell(rows[charLevel + 1], spellLevel, slotsToGrant)]
                     ELSE rows
         IN  CharLevelLoopOffByOne(next, charLevel + 1, spellLevel, slotsToGrant)

\* for (charLevel = requiredCharLevel; charLevel <= 20; charLevel++)
RECURSIVE CharLevelLoop(_, _, _, _)
CharLevelLoop(rows, charLevel, spellLevel, slotsToGrant) ==
    IF charLevel > LastCharacterLevel THEN rows
    ELSE LET next ==
                 IF charLevel \in 1..Len(rows)
                     THEN [rows EXCEPT ![charLevel] =
                              WriteCell(rows[charLevel], spellLevel, slotsToGrant)]
                     ELSE rows
         IN  CharLevelLoop(next, charLevel + 1, spellLevel, slotsToGrant)

\* for (spellLevel = 10; spellLevel <= maxLevel; spellLevel++)
RECURSIVE SpellLevelLoop(_, _, _)
SpellLevelLoop(rows, config, spellLevel) ==
    IF spellLevel > config.maxSpellLevel THEN rows
    ELSE LET lc == LevelConfig(config, spellLevel)
             next ==
                 IF ~IsEnabled(lc) THEN rows
                 ELSE CharLevelLoop(rows,
                          ParseIntOr(lc.rule.characterLevel, DefaultCharacterLevel),
                          spellLevel,
                          ParseIntOr(lc.rule.slots, DefaultSlots))
         IN  SpellLevelLoop(next, config, spellLevel + 1)

\* updateSpellLevelsConfig: purge 10..99, then label 10..maxLevel.
UpdateSpellLevelsConfig(levels, maxLevel) ==
    (levels \ (FirstExpandedLevel..LastPurgedLevel))
        \cup (FirstExpandedLevel..maxLevel)

\* A patcher that skips the reset and patches the live table.
ResetTableKeepLive(live, original) == live

\* CONFIG.DND5E.SPELL_SLOT_TABLE = originalSpellSlotTable.map(row => [...row])
ResetTable(live, original) == CopyRows(original)

\* applyExpandedSpellSlots: the state it leaves, or "threw" with the state
\* untouched when the table is read while undefined.
ApplyExpandedSpellSlots(s, tbl, orig, model, levels) ==
    LET config == GetConfig(s)
    IN  IF ~orig.present /\ ~tbl.present
        THEN [outcome |-> "threw", table |-> tbl, original |-> orig,
              model |-> model, levels |-> levels]
        ELSE LET original == IF orig.present THEN orig
                             ELSE Defined(CopyRows(tbl.rows))
                 reset == ResetTable(tbl.rows, original.rows)
                 patched == SpellLevelLoop(reset, config, FirstExpandedLevel)
             IN  [outcome |-> "ok",
                  table |-> Defined(patched),
                  original |-> original,
                  model |-> IF model.present THEN Defined(patched) ELSE model,
                  levels |-> UpdateSpellLevelsConfig(levels, config.maxSpellLevel)]

----------------------------------------------------------------------------
(* Inputs of the patcher: host tables and stored configurations.           *)

\* A 20-row table whose rows are trimmed to the tiers they grant.
RaggedTable ==
    [c \in 1..20 |-> [t \in 1..(IF c >= 17 THEN 9 ELSE (c + 1) \div 2) |->
                        IF t = 1 THEN 4 ELSE 1]]

\* A 20-row table that already carries slots in columns 10 to 12.
WideTable == [c \in 1..20 |-> [t \in 1..12 |-> IF c >= 19 THEN 3 ELSE 0]]

\* A table with fewer than 20 rows.
ShortTable == [c \in 1..19 |-> [t \in 1..9 |-> 2]]

HostTables == {RaggedTable, WideTable, ShortTable}

CfgRules == {Rule("T", <<18>>, <<0>>), Rule("F", <<19>>, <<3>>)}

\* A stored configuration with no rule for tier 11 and unparsable fields.
SparseConfig ==
    [maxSpellLevel |-> 12,
     levels |-> (10 :> Rule("T", <<19>>, <<2>>)) @@
                (12 :> Rule("str:true", <<>>, <<>>))]

Configs ==
    {SparseConfig} \cup
    UNION {{[maxSpellLevel |-> m, levels |-> l] :
               l \in [FirstExpandedLevel..m -> CfgRules]} :
           m \in FirstExpandedLevel..MaxCfgTier}

NoFirstApply == [has |-> FALSE, other |-> FALSE, cfg |-> DEFAULT_CONFIG,
                 table |-> Undefined]

FormIdle ==
    /\ inflight = <<>>
    /\ formOpen = FALSE
    /\ shownMax = FirstExpandedLevel
    /\ submitPc = "idle"
    /\ reloadRequested = FALSE
    /\ hist = <<>>
    /\ burstBase = 0
    /\ burstAdds = 0

ReadyIdle ==
    /\ actors = <<>>
    /\ tokens = <<>>
    /\ readyPc = "idle"
    /\ idx = 0
    /\ prepCount = <<>>

PatchInit ==
    /\ settings \in {NoSetting} \cup {Stored(c) : c \in Configs}
    /\ table \in {Undefined} \cup {Defined(t) : t \in HostTables}
    /\ originalSpellSlotTable = Undefined
    /\ spellModel \in {Undefined, table}
    /\ spellLevels = {}
    /\ outcome = "none"
    /\ lastOp = "init"
    /\ prevOp = "init"
    /\ firstApply = NoFirstApply

Init == PatchInit /\ FormIdle /\ ReadyIdle

\* The setup hook, the ready hook and the exported debugging entry point all
\* call applyExpandedSpellSlots().
ApplyCall ==
    LET r == ApplyExpandedSpellSlots(settings, table, originalSpellSlotTable,
                                     spellModel, spellLevels)
    IN  /\ table' = r.table
        /\ originalSpellSlotTable' = r.original
        /\ spellModel' = r.model
        /\ spellLevels' = r.levels
        /\ outcome' = r.outcome
        /\ lastOp' = "apply"
        /\ prevOp' = lastOp
        /\ firstApply' =
              IF r.outcome # "ok" THEN firstApply
              ELSE IF ~firstApply.has
                  THEN [has |-> TRUE, other |-> FALSE,
                        cfg |-> GetConfig(settings), table |-> r.table]
              ELSE IF GetConfig(settings) # firstApply.cfg
                  THEN [firstApply EXCEPT !.other = TRUE]
              ELSE firstApply
        /\ UNCHANGED <<settings, formVars, readyVars>>

\* Hooks.once("i18nInit"): refresh the labels only.
I18nInitHook ==
    /\ spellLevels' = UpdateSpellLevelsConfig(spellLevels,
                                              GetConfig(settings).maxSpellLevel)
    /\ lastOp' = "i18n"
    /\ prevOp' = lastOp
    /\ UNCHANGED <<settings, table, originalSpellSlotTable, spellModel, outcome,
                   firstApply, formVars, readyVars>>

\* A completed game.settings.set(MODULE_ID, "config", cfg).
SettingsSet ==
    \E cfg \in Configs :
        /\ settings # Stored(cfg)
        /\ settings' = Stored(cfg)
        /\ lastOp' = "set"
        /\ prevOp' = lastOp
        /\ UNCHANGED <<patchVars, formVars, readyVars>>

Next == ApplyCall \/ I18nInitHook \/ SettingsSet

Spec == Init /\ [][Next]_vars

----------------------------------------------------------------------------
(* Properties of the patcher, checked under Spec.                          *)

Applied == lastOp = "apply" /\ outcome = "ok"

\* C1: an apply under the configuration of the first apply leaves the live
\* table equal to the table the first apply produced, whether it directly
\* follows an apply with the same configuration or comes after applies made
\* with other configurations: the result depends on the pristine snapshot
\* and the configuration only.
ApplyIdempotent ==
    (Applied /\ firstApply.has /\ GetConfig(settings) = firstApply.cfg)
        => table = firstApply.table

\* Two applies in a row under the first configuration, after a different
\* configuration that enables a tier had been applied in between.
ApplyIdempotentWitness ==
    /\ Applied
    /\ prevOp = "apply"
    /\ firstApply.has
    /\ firstApply.other
    /\ GetConfig(settings) = firstApply.cfg
    /\ table # originalSpellSlotTable

\* A rule's required character level: the default when the field is absent
\* or unparsable, the stored number otherwise.
SpecField(raw, dflt) == IF raw = <<>> THEN dflt ELSE raw[1]

\* Tier t is written in the row of character level c under config.
Granted(config, c, t) ==
    /\ t \in FirstExpandedLevel..config.maxSpellLevel
    /\ IsEnabled(LevelConfig(config, t))
    /\ c >= SpecField(config.levels[t].characterLevel, DefaultCharacterLevel)
    /\ c <= LastCharacterLevel

PristineCell(c, t) ==
    IF t <= Len(originalSpellSlotTable.rows[c])
        THEN originalSpellSlotTable.rows[c][t] ELSE 0

\* A rule's slot count, a stored 0 standing for zeroAs.
SlotCount(raw, zeroAs) ==
    IF raw = <<>> THEN DefaultSlots
    ELSE IF raw[1] = 0 THEN zeroAs ELSE raw[1]

\* The patched table cell by cell.
PatchResult(zeroAs) ==
    LET config == GetConfig(settings)
    IN  /\ Len(table.rows) = Len(originalSpellSlotTable.rows)
        /\ \A c \in 1..Len(table.rows) :
              /\ Len(table.rows[c]) >= Len(originalSpellSlotTable.rows[c])
              /\ \A t \in 1..Len(table.rows[c]) :
                    table.rows[c][t] =
                        IF Granted(config, c, t)
                            THEN SlotCount(config.levels[t].slots, zeroAs)
                            ELSE PristineCell(c, t)

\* C2: after an apply every cell of an enabled tier from its required
\* character level to 20 holds the rule's slot count, for every slot count
\* >= 0 (0 included), and every other cell keeps its pristine value, rows
\* being grown with zeros only.
PatchWritesSlotCount == Applied => PatchResult(0)

\* The same statement with a slot count of 0 read as the default 1, which is
\* what parseInt(slots) || 1 computes.
PatchWritesCodedSlotCount == Applied => PatchResult(DefaultSlots)

\* table[c-1][t-1] of the live table, -1 standing for an absent cell.
Cell(c, t) ==
    IF c \in 1..Len(table.rows) /\ t \in 1..Len(table.rows[c])
        THEN table.rows[c][t] ELSE -1

\* C3: with nothing stored the configuration is maxSpellLevel 12 with tier 10
\* enabled at character level 19 and tiers 11, 12 enabled at 20, one slot
\* each; applied to a pristine 20-row table it sets rows[19][10], rows[20][10],
\* rows[20][11] and rows[20][12] to 1 and leaves the rows of character levels
\* 1 to 18 as they were.
DefaultScenario ==
    (Applied /\ ~settings.has /\ Len(originalSpellSlotTable.rows) = 20) =>
        LET config == GetConfig(settings)
            req(t) == ParseIntOr(config.levels[t].characterLevel,
                                 DefaultCharacterLevel)
            slots(t) == ParseIntOr(config.levels[t].slots, DefaultSlots)
        IN  /\ config.maxSpellLevel = 12
            /\ DOMAIN config.levels = 10..12
            /\ \A t \in 10..12 : IsEnabled(LevelConfig(config, t)) /\ slots(t) = 1
            /\ req(10) = 19 /\ req(11) = 20 /\ req(12) = 20
            /\ Cell(19, 10) = 1
            /\ Cell(20, 10) = 1
            /\ Cell(20, 11) = 1
            /\ Cell(20, 12) = 1
            /\ \A c \in 1..18 : table.rows[c] = originalSpellSlotTable.rows[c]

\* The default configuration applied to the ragged 20-row table.
DefaultScenarioWitness ==
    /\ Applied
    /\ ~settings.has
    /\ originalSpellSlotTable = Defined(RaggedTable)
    /\ Len(table.rows[19]) = 10
    /\ Len(table.rows[20]) = 12

\* C8: an apply made while the host table or the cached-copy handle is
\* absent skips the step, raises nothing and completes normally, and takes
\* no snapshot from an absent table.
HostNotReadyTolerated ==
    lastOp = "apply" =>
        /\ outcome = "ok"
        /\ (~table.present => ~originalSpellSlotTable.present)

\* The half of C8 that the code does honour: an absent cached-copy handle.
CacheAbsentTolerated ==
    (lastOp = "apply" /\ table.present /\ ~spellModel.present) => outcome = "ok"

----------------------------------------------------------------------------
(* SettingsForm: pure parts of the handlers.                               *)

FreshRule == Rule("T", <<20>>, <<1>>)

\* _addLevel, up to the call of game.settings.set.
AddLevelConfig(config) ==
    LET newLevel == config.maxSpellLevel + 1
    IN  [maxSpellLevel |-> newLevel,
         levels |-> [t \in DOMAIN config.levels \cup {newLevel} |->
                        IF t = newLevel THEN FreshRule ELSE config.levels[t]]]

\* A removal that lowers maxSpellLevel but forgets to delete the rule.
RemoveLevelKeepsRule(config, level) ==
    [maxSpellLevel |-> IF level = config.maxSpellLevel
                           THEN level - 1 ELSE config.maxSpellLevel,
     levels |-> config.levels]

\* _removeLevel past its guard, up to the call of game.settings.set.
RemoveLevelConfig(config, level) ==
    [maxSpellLevel |-> IF level = config.maxSpellLevel
                           THEN level - 1 ELSE config.maxSpellLevel,
     levels |-> [t \in DOMAIN config.levels \ {level} |-> config.levels[t]]]

AbsentRow == Rule("undefined", <<>>, <<>>)

\* formData[`levels.${level}.*`]: absent for a tier the form did not render.
FormRow(formData, level) ==
    IF level \in DOMAIN formData THEN formData[level] ELSE AbsentRow

\* enabledValue === true || enabledValue === "on" || enabledValue === "true"
SubmitEnabled(raw) == raw \in {"T", "str:on", "str:true"}

\* _updateObject, up to the call of game.settings.set.
SubmitConfig(currentConfig, formData) ==
    [maxSpellLevel |-> currentConfig.maxSpellLevel,
     levels |-> [level \in FirstExpandedLevel..currentConfig.maxSpellLevel |->
        LET row == FormRow(formData, level)
        IN  Rule(IF SubmitEnabled(row.enabled) THEN "T" ELSE "F",
                 <<ParseIntOr(row.characterLevel, DefaultCharacterLevel)>>,
                 <<ParseIntOr(row.slots, DefaultSlots)>>)]]

\* getData: maxToShow = Math.max(config.maxSpellLevel, 10)
MaxToShow(config) == Max(config.maxSpellLevel, FirstExpandedLevel)

----------------------------------------------------------------------------
(* SettingsForm: the handlers as steps.  game.settings.set is asynchronous: *)
(* a handler reads the configuration and issues its write in one step, and *)
(* the write takes effect (or fails) in a later one.  Writes complete in   *)
(* the order they were issued.                                             *)

FormRows == {Rule("str:on", <<>>, <<0>>), Rule("undefined", <<19>>, <<2>>)}

Write(kind, level, value) ==
    [kind |-> kind, level |-> level, value |-> value,
     alone |-> inflight = <<>>]

\* History of handlers that ran with no other write in flight: a removal
\* of the top tier, and the add that follows it.  Such a handler read the
\* configuration that is still stored when its write completes.
Record(h, w) ==
    LET e == [kind |-> w.kind, level |-> w.level,
              before |-> GetConfig(settings), after |-> w.value]
    IN  IF ~w.alone THEN <<>>
        ELSE IF w.kind = "remove" /\ w.level = e.before.maxSpellLevel
            THEN <<e>>
        ELSE IF w.kind = "add" /\ Len(h) = 1 THEN <<h[1], e>>
        ELSE <<>>

\* The form accepts clicks: rendered, and no submission in progress.
Editable == formOpen /\ submitPc \in {"idle", "failed"}

PatchIdle ==
    /\ table = Defined(RaggedTable)
    /\ originalSpellSlotTable = Undefined
    /\ spellModel = Undefined
    /\ spellLevels = {}
    /\ outcome = "none"
    /\ lastOp = "init"
    /\ prevOp = "init"
    /\ firstApply = NoFirstApply

FormInit == settings = NoSetting /\ PatchIdle /\ FormIdle /\ ReadyIdle

notForm == <<patchVars, lastOp, prevOp, readyVars>>

\* The settings menu opens the form: getData and the first render.
OpenForm ==
    /\ ~formOpen
    /\ submitPc = "idle"
    /\ formOpen' = TRUE
    /\ shownMax' = MaxToShow(GetConfig(settings))
    /\ UNCHANGED <<settings, inflight, submitPc, reloadRequested, hist,
                   burstBase, burstAdds, notForm>>

\* Click on "add level": _addLevel up to its await.
AddLevelClick ==
    LET config == GetConfig(settings)
    IN  /\ Editable
        /\ Len(inflight) < MaxInflight
        /\ config.maxSpellLevel < MaxTier
        /\ inflight' = Append(inflight,
               Write("add", config.maxSpellLevel + 1, AddLevelConfig(config)))
        /\ burstBase' = IF inflight = <<>> THEN config.maxSpellLevel
                        ELSE burstBase
        /\ burstAdds' = IF inflight = <<>> THEN 1
                        ELSE IF burstAdds > 0 THEN burstAdds + 1 ELSE 0
        /\ UNCHANGED <<settings, formOpen, shownMax, submitPc, reloadRequested,
                       hist, notForm>>

\* Click on a row's "remove" button: _removeLevel up to its await, or its
\* early return for level <= 10.
RemoveLevelClick ==
    \E level \in FirstExpandedLevel..shownMax :
        LET config == GetConfig(settings)
        IN  /\ Editable
            /\ Len(inflight) < MaxInflight
            /\ IF level <= FirstExpandedLevel
                   THEN UNCHANGED <<inflight, burstBase, burstAdds>>
                   ELSE /\ inflight' = Append(inflight,
                               Write("remove", level,
                                     RemoveLevelConfig(config, level)))
                        /\ burstBase' = 0
                        /\ burstAdds' = 0
            /\ UNCHANGED <<settings, formOpen, shownMax, submitPc,
                           reloadRequested, hist, notForm>>

\* The write of an add or remove completes: the setting changes, then
\* this.render(true) shows it.
WriteResolve ==
    /\ inflight # <<>>
    /\ Head(inflight).kind \in {"add", "remove"}
    /\ LET w == Head(inflight)
       IN  /\ settings' = Stored(w.value)
           /\ shownMax' = MaxToShow(w.value)
           /\ hist' = Record(hist, w)
    /\ inflight' = Tail(inflight)
    /\ UNCHANGED <<formOpen, submitPc, reloadRequested, burstBase,
                   burstAdds, notForm>>

\* The write of an add or remove fails: the await throws, nothing is rendered.
WriteReject ==
    /\ inflight # <<>>
    /\ Head(inflight).kind \in {"add", "remove"}
    /\ inflight' = Tail(inflight)
    /\ hist' = <<>>
    /\ burstBase' = 0
    /\ burstAdds' = 0
    /\ UNCHANGED <<settings, formOpen, shownMax, submitPc, reloadRequested,
                   notForm>>

\* Submit: _updateObject up to its first await.
SubmitClick ==
    \E formData \in [FirstExpandedLevel..shownMax -> FormRows] :
        LET currentConfig == GetConfig(settings)
        IN  /\ Editable
            /\ Len(inflight) < MaxInflight
            /\ inflight' = Append(inflight,
                   Write("submit", 0, SubmitConfig(currentConfig, formData)))
            /\ submitPc' = "saving"
            /\ hist' = <<>>
            /\ burstBase' = 0
            /\ burstAdds' = 0
            /\ UNCHANGED <<settings, formOpen, shownMax, reloadRequested,
                           notForm>>

\* await game.settings.set(...) of the submit returns.
SubmitSaveResolve ==
    /\ inflight # <<>>
    /\ Head(inflight).kind = "submit"
    /\ settings' = Stored(Head(inflight).value)
    /\ inflight' = Tail(inflight)
    /\ submitPc' = "delay"
    /\ UNCHANGED <<formOpen, shownMax, reloadRequested, hist,
                   burstBase, burstAdds, notForm>>

\* await game.settings.set(...) of the submit throws: _updateObject ends.
SubmitSaveReject ==
    /\ inflight # <<>>
    /\ Head(inflight).kind = "submit"
    /\ inflight' = Tail(inflight)
    /\ submitPc' = "failed"
    /\ UNCHANGED <<settings, formOpen, shownMax, reloadRequested, hist,
                   burstBase, burstAdds, notForm>>

\* A submit that starts the reload without awaiting the save.
SaveNotAwaited == submitPc \in {"saving", "delay"}

\* _updateObject is past "await game.settings.set" and in the 500 ms delay.
SaveAwaited == submitPc = "delay"

\* A submit whose delay ends without the call of reloadGame().
SubmitEndsWithoutReload ==
    /\ SaveAwaited
    /\ submitPc' = "done"
    /\ formOpen' = FALSE
    /\ UNCHANGED <<settings, inflight, shownMax, reloadRequested, hist,
                   burstBase, burstAdds, notForm>>

\* The delay elapses: reloadGame() posts the notification and arms the
\* reload timer; _updateObject returns and the form closes.
SubmitDelayElapsed ==
    /\ SaveAwaited
    /\ submitPc' = "reloading"
    /\ reloadRequested' = TRUE
    /\ formOpen' = FALSE
    /\ UNCHANGED <<settings, inflight, shownMax, hist, burstBase,
                   burstAdds, notForm>>

\* The reload timer fires: window.location.reload() starts a new page, with
\* the stored setting kept and everything else gone.
ReloadTimerFires ==
    /\ submitPc = "reloading"
    /\ submitPc' = "idle"
    /\ reloadRequested' = FALSE
    /\ inflight' = <<>>
    /\ hist' = <<>>
    /\ burstBase' = 0
    /\ burstAdds' = 0
    /\ shownMax' = FirstExpandedLevel
    /\ UNCHANGED <<settings, formOpen, notForm>>

FormNext ==
    \/ OpenForm
    \/ AddLevelClick
    \/ RemoveLevelClick
    \/ WriteResolve
    \/ WriteReject
    \/ SubmitClick
    \/ SubmitSaveResolve
    \/ SubmitSaveReject
    \/ SubmitDelayElapsed
    \/ ReloadTimerFires

FormSpec == FormInit /\ [][FormNext]_vars

\* Every settings write is eventually answered and every timer fires.
FormLiveSpec ==
    /\ FormSpec
    /\ WF_vars(WriteResolve \/ WriteReject)
    /\ WF_vars(SubmitSaveResolve \/ SubmitSaveReject)
    /\ WF_vars(SubmitDelayElapsed)
    /\ WF_vars(ReloadTimerFires)

----------------------------------------------------------------------------
(* Properties of the settings form, checked under FormSpec / FormLiveSpec. *)

\* C4: whatever sequence of add, remove and submit produced it, the stored
\* configuration's levels are exactly the tiers 10..maxSpellLevel.
LevelsExactlyRange ==
    LET config == GetConfig(settings)
    IN  DOMAIN config.levels = FirstExpandedLevel..config.maxSpellLevel

\* What does hold of the stored levels: no tier below 10 and none above
\* maxSpellLevel, though tiers in between may be missing.
LevelsWithinRange ==
    LET config == GetConfig(settings)
    IN  DOMAIN config.levels \subseteq FirstExpandedLevel..config.maxSpellLevel

\* hist holds a removal of the top tier m > 10 followed by an add, each run
\* to completion with nothing else in flight.
RemovedThenAdded ==
    /\ Len(hist) = 2
    /\ hist[1].kind = "remove"
    /\ hist[1].level = hist[1].before.maxSpellLevel
    /\ hist[1].level > FirstExpandedLevel
    /\ hist[2].kind = "add"

\* C5: removing the top tier m > 10 yields maxSpellLevel m-1 with no rule
\* for m, and the add that follows yields maxSpellLevel m with the fresh
\* default rule at m; the rules of all other tiers are unchanged by both.
RemoveThenAdd ==
    RemovedThenAdded =>
        LET m == hist[1].level
            before == hist[1].before
            removed == hist[1].after
            added == hist[2].after
            others == DOMAIN before.levels \ {m}
        IN  /\ hist[2].before = removed
            /\ removed.maxSpellLevel = m - 1
            /\ DOMAIN removed.levels = others
            /\ added.maxSpellLevel = m
            /\ DOMAIN added.levels = others \cup {m}
            /\ added.levels[m] = FreshRule
            /\ \A t \in others : /\ removed.levels[t] = before.levels[t]
                                 /\ added.levels[t] = before.levels[t]
            /\ GetConfig(settings) = added

\* The removed rule had been edited away from the fresh default, and
\* another tier carries edited values too.
RemoveThenAddWitness ==
    /\ RemovedThenAdded
    /\ LET m == hist[1].level
           before == hist[1].before
       IN  /\ m \in DOMAIN before.levels
           /\ before.levels[m] # FreshRule
           /\ before.levels[FirstExpandedLevel] = Rule("F", <<19>>, <<2>>)

SubmitWritePending == \E i \in 1..Len(inflight) : inflight[i].kind = "submit"

\* C6: the reload is never requested while the write started by the submit
\* is still pending.
ReloadAfterSave == reloadRequested => ~SubmitWritePending

\* The reload has been requested by a submit whose write, now stored,
\* disabled the top tier.
ReloadAfterSaveWitness ==
    /\ reloadRequested
    /\ submitPc = "reloading"
    /\ GetConfig(settings).maxSpellLevel = MaxTier
    /\ GetConfig(settings).levels[MaxTier] = Rule("F", <<19>>, <<2>>)

NoLostUpdate ==
    (inflight = <<>> /\ burstAdds > 0) =>
        LET config == GetConfig(settings)
        IN  /\ config.maxSpellLevel = burstBase + burstAdds
            /\ (burstBase + 1)..(burstBase + burstAdds)
                   \subseteq DOMAIN config.levels

\* The same for adds that do not overlap.
NoLostUpdateSequential ==
    (inflight = <<>> /\ burstAdds = 1) =>
        GetConfig(settings).maxSpellLevel = burstBase + 1

----------------------------------------------------------------------------
(* The ready hook.  An entity is a world actor (key i, its place in        *)
(* game.actors) or the synthetic actor of an unlinked token (key -j, the   *)
(* token's place in the enumeration of scenes and tokens).  A linked       *)
(* token's actor is the world actor itself.                                *)

\* actor.system?.spells && actor._prepareSpellcasting, and whether the call
\* throws.
EntityKinds == {[eligible |-> TRUE, throws |-> FALSE],
                [eligible |-> TRUE, throws |-> TRUE],
                [eligible |-> FALSE, throws |-> FALSE]}

NoEntity == [eligible |-> FALSE, throws |-> FALSE]

\* token.actor: none, a world actor (link > 0) or a synthetic actor.
TokenKinds(n) ==
    {[present |-> FALSE, link |-> 0, own |-> NoEntity]}
    \cup {[present |-> TRUE, link |-> i, own |-> NoEntity] : i \in 1..n}
    \cup {[present |-> TRUE, link |-> 0, own |-> k] : k \in EntityKinds}

\* const actor = token.actor, as an entity key (0: no actor).
TokenActor(j) ==
    IF ~tokens[j].present THEN 0
    ELSE IF tokens[j].link > 0 THEN tokens[j].link ELSE -j

EntityKeys == (1..Len(actors)) \cup {-j : j \in 1..Len(tokens)}

Entity(key) == IF key > 0 THEN actors[key] ELSE tokens[-key].own

\* The call with no try/catch around it: a throwing entity ends the handler.
PrepareUncaught(counts, key) ==
    IF Entity(key).throws THEN [counts EXCEPT ![key] = -1]
    ELSE [counts EXCEPT ![key] = @ + 1]

\* try { actor._prepareSpellcasting(); } catch (e) { ... }: the call is made,
\* and what it throws goes no further.
PrepareCaught(counts, key) == [counts EXCEPT ![key] = @ + 1]

ReadyInit ==
    /\ settings = NoSetting
    /\ table \in {Undefined, Defined(RaggedTable)}
    /\ originalSpellSlotTable = Undefined
    /\ spellModel = table
    /\ spellLevels = {}
    /\ outcome = "none"
    /\ lastOp = "init"
    /\ prevOp = "init"
    /\ firstApply = NoFirstApply
    /\ FormIdle
    /\ \E n \in 0..MaxActors : actors \in [1..n -> EntityKinds]
    /\ \E k \in 0..MaxTokens : tokens \in [1..k -> TokenKinds(Len(actors))]
    /\ readyPc = "idle"
    /\ idx = 0
    /\ prepCount = [key \in EntityKeys |-> 0]

notReady == <<settings, formVars, lastOp, prevOp, firstApply>>

\* Hooks.once("ready"): up to "await registerTemplates()".
ReadyStart ==
    /\ readyPc = "idle"
    /\ readyPc' = "templates"
    /\ UNCHANGED <<table, originalSpellSlotTable, spellModel, spellLevels,
                   outcome, actors, tokens, idx, prepCount, notReady>>

\* The templates are loaded: applyExpandedSpellSlots(), which ends the
\* handler if it throws.
ReadyApply ==
    LET r == ApplyExpandedSpellSlots(settings, table, originalSpellSlotTable,
                                     spellModel, spellLevels)
    IN  /\ readyPc = "templates"
        /\ table' = r.table
        /\ originalSpellSlotTable' = r.original
        /\ spellModel' = r.model
        /\ spellLevels' = r.levels
        /\ outcome' = r.outcome
        /\ readyPc' = IF r.outcome = "ok" THEN "actors" ELSE "threw"
        /\ idx' = 1
        /\ UNCHANGED <<actors, tokens, prepCount, notReady>>

\* One iteration of "for (const actor of game.actors)".
ReadyActorStep ==
    /\ readyPc = "actors"
    /\ IF idx > Len(actors)
           THEN readyPc' = "tokens" /\ idx' = 1 /\ UNCHANGED prepCount
           ELSE LET counts == IF actors[idx].eligible
                                  THEN PrepareCaught(prepCount, idx)
                                  ELSE prepCount
                IN  /\ prepCount' = counts
                    /\ readyPc' = IF counts[idx] < 0 THEN "threw" ELSE "actors"
                    /\ idx' = idx + 1
    /\ UNCHANGED <<table, originalSpellSlotTable, spellModel, spellLevels,
                   outcome, actors, tokens, notReady>>

\* One iteration of "for (const scene of game.scenes) for (const token of
\* scene.tokens)".
ReadyTokenStep ==
    /\ readyPc = "tokens"
    /\ IF idx > Len(tokens)
           THEN readyPc' = "done" /\ idx' = 0 /\ UNCHANGED prepCount
           ELSE LET key == TokenActor(idx)
                    counts == IF key # 0 /\ Entity(key).eligible
                                  THEN PrepareCaught(prepCount, key)
                                  ELSE prepCount
                IN  /\ prepCount' = counts
                    /\ readyPc' = IF key # 0 /\ counts[key] < 0
                                      THEN "threw" ELSE "tokens"
                    /\ idx' = idx + 1
    /\ UNCHANGED <<table, originalSpellSlotTable, spellModel, spellLevels,
                   outcome, actors, tokens, notReady>>

ReadyNext == ReadyStart \/ ReadyApply \/ ReadyActorStep \/ ReadyTokenStep

ReadySpec == ReadyInit /\ [][ReadyNext]_vars

----------------------------------------------------------------------------
(* Properties of the ready hook, checked under ReadySpec.                  *)

\* The entities the handler is to recompute: eligible world actors and
\* eligible actors of tokens.
Eligible ==
    {key \in EntityKeys :
        /\ Entity(key).eligible
        /\ key < 0 => TokenActor(-key) = key}

\* How often an entity occurs in the handler's two enumerations.
Occurrences(key) ==
    (IF key > 0 THEN 1 ELSE 0)
        + Cardinality({j \in 1..Len(tokens) : TokenActor(j) = key})

\* C9: whatever entities are loaded and whichever of them throw, the ready
\* handler completes normally, having invoked the recomputation exactly once
\* on every eligible entity.
ReadyIsolation ==
    readyPc \in {"done", "threw"} =>
        /\ readyPc = "done"
        /\ \A key \in Eligible : prepCount[key] = 1

\* What the loops do guarantee once they are reached: no entity's failure
\* ends the handler, and every eligible entity is recomputed once for each
\* of its occurrences in the enumerations.
LoopsIsolateFailures ==
    /\ readyPc = "threw" => outcome = "threw"
    /\ readyPc = "done" =>
          \A key \in Eligible : prepCount[key] = Occurrences(key)

====
